---- MODULE Spec2Model ----
(***************************************************************************)
(* The dropdown family of web/src/components/Dropdown.tsx as a state       *)
(* machine: SearchMultiSelectDropdown, CustomDropdown, DefaultDropdown and *)
(* ControlledPopup instances on one page, the document's mousedown         *)
(* listeners they register, and the callbacks they make into the caller.   *)
(*                                                                         *)
(* Strings are sequences of one-character strings, so that toLowerCase,    *)
(* includes and trim are computed character by character as the JavaScript *)
(* built-ins compute them.                                                 *)
(***************************************************************************)
EXTENDS Integers, Sequences, FiniteSets, TLC

VARIABLES
    mounted,        \* [Inst -> BOOLEAN]: the instance is in the React tree
    isOpen,         \* [Inst -> BOOLEAN]: useState(false); for ControlledPopup the isOpen prop
    searchTerm,     \* [Inst -> string]: useState("") of SearchMultiSelectDropdown
    options,        \* [Inst -> sequence of Option]: the options prop
    onCreateLabel,  \* [Inst -> BOOLEAN]: the optional onCreateLabel prop is supplied
    includeDefault, \* [Inst -> BOOLEAN]: the includeDefault prop of DefaultDropdown
    setIsOpen,      \* [Inst -> identity of the setIsOpen prop of ControlledPopup]
    listeners,      \* [Inst -> sequence of handler identities]: the document's mousedown
                    \* listeners, grouped by the instance whose effect registered them
    ev,             \* the event handled by the last step
    calls,          \* the calls into the caller's callbacks made by the last step, in order
    prevOpen,       \* isOpen as it was when the last step's event arrived
    layout          \* the request served by RootLayout: its fetches and what it rendered

vars == <<mounted, isOpen, searchTerm, options, onCreateLabel, includeDefault,
          setIsOpen, listeners, ev, calls, prevOpen, layout>>

----------------------------------------------------------------------------
(* Bounds *)

\* longest search term the user types
MaxLen == 2

\* longest options list a caller passes
MaxOpts == 2

\* instances mounted at the same time
MaxMounted == 2

\* distinct setIsOpen functions a caller of ControlledPopup passes
MaxSetters == 2

----------------------------------------------------------------------------
(* Strings *)

Alphabet == {"a", "A", "b", " "}

Str(n) == UNION {[1..k -> Alphabet] : k \in 0..n}

\* String.prototype.toLowerCase, one character
LowerChar(c) == IF c = "A" THEN "a" ELSE c

toLowerCase(s) == [k \in 1..Len(s) |-> LowerChar(s[k])]

\* String.prototype.includes: t occurs in s at some offset
includes(s, t) ==
    \E off \in 0..(Len(s) - Len(t)) : SubSeq(s, off + 1, off + Len(t)) = t

IsSpace(c) == c = " "

RECURSIVE trimStart(_)
trimStart(s) ==
    IF s # <<>> /\ IsSpace(Head(s)) THEN trimStart(Tail(s)) ELSE s

RECURSIVE trimEnd(_)
trimEnd(s) ==
    IF s # <<>> /\ IsSpace(s[Len(s)]) THEN trimEnd(SubSeq(s, 1, Len(s) - 1)) ELSE s

\* String.prototype.trim
trim(s) == trimEnd(trimStart(s))

----------------------------------------------------------------------------
(* Options *)

Option(n, v) == [name |-> n, value |-> v]

\* The options callers draw their lists from: names that differ in case only,
\* a name shared by two options, names with inner and leading whitespace.
OptionPool ==
    { Option(<<"a">>, 1), Option(<<"A", "b">>, 2), Option(<<"b", "a">>, 3),
      Option(<<"a">>, 4), Option(<<" ", "b">>, 5) }

SeqsUpTo(S, n) == UNION {[1..k -> S] : k \in 0..n}

OptionLists == SeqsUpTo(OptionPool, MaxOpts)

Terms == Str(MaxLen)

\* The lists and terms used where several instances share the page.
PageOptionLists ==
    { <<Option(<<"A", "b">>, 2), Option(<<"a">>, 1)>>, <<Option(<<"a">>, 4)>> }

PageTerms == {<<>>, <<"a">>, <<"b">>, <<" ">>}

----------------------------------------------------------------------------
(* Instances *)

SearchInst  == {"s1", "s2"}
CustomInst  == {"c1"}
DefaultInst == {"d1"}
PopupInst   == {"p1"}
Inst == SearchInst \cup CustomInst \cup DefaultInst \cup PopupInst
InstSeq == <<"s1", "s2", "c1", "d1", "p1">>

SetterIds == 1..MaxSetters

\* A mousedown target: an element of an instance's rendered output, or
\* an element of the page that belongs to no instance.
Outside == [inst |-> "document", region |-> "body"]

FixedRegion(i) ==
    CASE i \in SearchInst  -> "anchor"
      [] i \in CustomInst  -> "toggle"
      [] i \in DefaultInst -> "trigger"
      [] i \in PopupInst   -> "children"

FloatingRegion(i) ==
    CASE i \in SearchInst  -> "menu"
      [] i \in CustomInst  -> "panel"
      [] i \in DefaultInst -> "popover"
      [] i \in PopupInst   -> "popup"

\* The floating region is rendered only under {isOpen && ...}
Targets ==
    {Outside}
    \cup {[inst |-> i, region |-> FixedRegion(i)] : i \in {j \in Inst : mounted[j]}}
    \cup {[inst |-> i, region |-> FloatingRegion(i)] :
            i \in {j \in Inst : mounted[j] /\ isOpen[j]}}

----------------------------------------------------------------------------
(* Events and callback records *)

Event(type, i, term, index, target) ==
    [type |-> type, inst |-> i, term |-> term, index |-> index, target |-> target]

NoTarget == [inst |-> "none", region |-> "none"]

\* A call of a caller-supplied function: fn(arg), arg tagged with its type.
Call(i, fn, id, tag, v) == [inst |-> i, fn |-> fn, id |-> id, tag |-> tag, v |-> v]

\* The element a click comes from: where the pointer went down when the
\* click completes a mousedown on region r of instance i, and none when the
\* click has another origin (the keyboard, a mousedown elsewhere)
ClickOrigin(i, r) ==
    IF ev.type = "mousedown" /\ ev.target = [inst |-> i, region |-> r]
      THEN ev.target
      ELSE NoTarget

----------------------------------------------------------------------------
(* SearchMultiSelectDropdown: rendering *)

\* filteredOptions with the two toLowerCase calls left out
filteredOptionsCaseSensitive(opts, term) ==
    SelectSeq(opts, LAMBDA option : includes(option.name, term))

filteredOptions(opts, term) ==
    SelectSeq(opts, LAMBDA option :
        includes(toLowerCase(option.name), toLowerCase(term)))

\* createRowOffered withheld whenever some option row is rendered
createRowOfferedOnlyWithoutMatches(opts, term, hasCreate) ==
    /\ hasCreate
    /\ trim(term) # <<>>
    /\ Len(filteredOptions(opts, term)) = 0

\* The condition guarding the "Create label" row
createRowOffered(opts, term, hasCreate) ==
    /\ hasCreate
    /\ trim(term) # <<>>
    /\ ~ \E k \in 1..Len(filteredOptions(opts, term)) :
           toLowerCase(filteredOptions(opts, term)[k].name) = toLowerCase(term)

\* noMatchesShown testing the term without trim
noMatchesShownWithoutTrim(opts, term, hasCreate) ==
    /\ Len(filteredOptions(opts, term)) = 0
    /\ (~hasCreate \/ term = <<>>)

\* The condition guarding the "No matches found" row
noMatchesShown(opts, term, hasCreate) ==
    /\ Len(filteredOptions(opts, term)) = 0
    /\ (~hasCreate \/ trim(term) = <<>>)

----------------------------------------------------------------------------
(* The document's mousedown listeners *)

addEventListener(ls, h) == Append(ls, h)

\* removes the listener registered with this function, if there is one
RECURSIVE removeEventListener(_, _)
removeEventListener(ls, h) ==
    IF ls = <<>> THEN <<>>
    ELSE IF Head(ls) = h THEN Tail(ls)
    ELSE <<Head(ls)>> \o removeEventListener(Tail(ls), h)

\* The identity of the handleClickOutside closure of SearchMultiSelectDropdown
\* and CustomDropdown: one per mount (the effect has no dependencies).
MountHandler == 0

NumMounted == Cardinality({i \in Inst : mounted[i]})

\* State of an instance that is not mounted: nothing is kept.
Discard(i) ==
    /\ isOpen' = [isOpen EXCEPT ![i] = FALSE]
    /\ searchTerm' = [searchTerm EXCEPT ![i] = <<>>]
    /\ options' = [options EXCEPT ![i] = <<>>]
    /\ onCreateLabel' = [onCreateLabel EXCEPT ![i] = FALSE]
    /\ includeDefault' = [includeDefault EXCEPT ![i] = FALSE]
    /\ setIsOpen' = [setIsOpen EXCEPT ![i] = 0]

----------------------------------------------------------------------------
(* SearchMultiSelectDropdown *)

SearchEffectSetup(ls) == addEventListener(ls, MountHandler)

SearchEffectCleanup(ls) == removeEventListener(ls, MountHandler)

\* SearchMount with useState(true)
SearchMountOpen(i, opts, hasCreate) ==
    /\ i \in SearchInst /\ ~mounted[i] /\ NumMounted < MaxMounted
    /\ mounted' = [mounted EXCEPT ![i] = TRUE]
    /\ isOpen' = [isOpen EXCEPT ![i] = TRUE]
    /\ searchTerm' = [searchTerm EXCEPT ![i] = <<>>]
    /\ options' = [options EXCEPT ![i] = opts]
    /\ onCreateLabel' = [onCreateLabel EXCEPT ![i] = hasCreate]
    /\ listeners' = [listeners EXCEPT ![i] = SearchEffectSetup(@)]
    /\ ev' = Event("mount", i, <<>>, 0, NoTarget)
    /\ calls' = <<>>
    /\ prevOpen' = isOpen
    /\ UNCHANGED layout
    /\ UNCHANGED <<includeDefault, setIsOpen>>

SearchMount(i, opts, hasCreate) ==
    /\ i \in SearchInst /\ ~mounted[i] /\ NumMounted < MaxMounted
    /\ mounted' = [mounted EXCEPT ![i] = TRUE]
    /\ isOpen' = [isOpen EXCEPT ![i] = FALSE]
    /\ searchTerm' = [searchTerm EXCEPT ![i] = <<>>]
    /\ options' = [options EXCEPT ![i] = opts]
    /\ onCreateLabel' = [onCreateLabel EXCEPT ![i] = hasCreate]
    /\ listeners' = [listeners EXCEPT ![i] = SearchEffectSetup(@)]
    /\ ev' = Event("mount", i, <<>>, 0, NoTarget)
    /\ calls' = <<>>
    /\ prevOpen' = isOpen
    /\ UNCHANGED layout
    /\ UNCHANGED <<includeDefault, setIsOpen>>

\* A re-render with new props: the effect's dependency list is empty, so it
\* does not run again.
SearchRender(i, opts, hasCreate) ==
    /\ i \in SearchInst /\ mounted[i]
    /\ options' = [options EXCEPT ![i] = opts]
    /\ onCreateLabel' = [onCreateLabel EXCEPT ![i] = hasCreate]
    /\ ev' = Event("render", i, <<>>, 0, NoTarget)
    /\ calls' = <<>>
    /\ prevOpen' = isOpen
    /\ UNCHANGED layout
    /\ UNCHANGED <<mounted, isOpen, searchTerm, includeDefault, setIsOpen, listeners>>

SearchUnmount(i) ==
    /\ i \in SearchInst /\ mounted[i]
    /\ mounted' = [mounted EXCEPT ![i] = FALSE]
    /\ Discard(i)
    /\ listeners' = [listeners EXCEPT ![i] = SearchEffectCleanup(@)]
    /\ ev' = Event("unmount", i, <<>>, 0, NoTarget)
    /\ calls' = <<>>
    /\ prevOpen' = isOpen
    /\ UNCHANGED layout

\* onFocus of the input
SearchFocus(i) ==
    /\ i \in SearchInst /\ mounted[i]
    /\ isOpen' = [isOpen EXCEPT ![i] = TRUE]
    /\ ev' = Event("focus", i, <<>>, 0, NoTarget)
    /\ calls' = <<>>
    /\ prevOpen' = isOpen
    /\ UNCHANGED layout
    /\ UNCHANGED <<mounted, searchTerm, options, onCreateLabel, includeDefault,
                   setIsOpen, listeners>>

\* SearchChange without the else branch that closes on the empty value
SearchChangeNeverCloses(i, v) ==
    /\ i \in SearchInst /\ mounted[i]
    /\ v # searchTerm[i]
    /\ searchTerm' = [searchTerm EXCEPT ![i] = v]
    /\ isOpen' = [isOpen EXCEPT ![i] = IF v # <<>> THEN TRUE ELSE @]
    /\ ev' = Event("change", i, v, 0, NoTarget)
    /\ calls' = <<>>
    /\ prevOpen' = isOpen
    /\ UNCHANGED layout
    /\ UNCHANGED <<mounted, options, onCreateLabel, includeDefault, setIsOpen, listeners>>

\* onChange of the input; v is e.target.value, which a change event has changed
SearchChange(i, v) ==
    /\ i \in SearchInst /\ mounted[i]
    /\ v # searchTerm[i]
    /\ searchTerm' = [searchTerm EXCEPT ![i] = v]
    /\ isOpen' = [isOpen EXCEPT ![i] = IF v # <<>> THEN TRUE ELSE FALSE]
    /\ ev' = Event("change", i, v, 0, NoTarget)
    /\ calls' = <<>>
    /\ prevOpen' = isOpen
    /\ UNCHANGED layout
    /\ UNCHANGED <<mounted, options, onCreateLabel, includeDefault, setIsOpen, listeners>>

\* onClick of the chevron button
SearchToggleClick(i) ==
    /\ i \in SearchInst /\ mounted[i]
    /\ isOpen' = [isOpen EXCEPT ![i] = ~isOpen[i]]
    /\ ev' = Event("toggle", i, <<>>, 0, ClickOrigin(i, "anchor"))
    /\ calls' = <<>>
    /\ prevOpen' = isOpen
    /\ UNCHANGED layout
    /\ UNCHANGED <<mounted, searchTerm, options, onCreateLabel, includeDefault,
                   setIsOpen, listeners>>

\* handleSelect with the open flag and the search term kept in one store
\* shared by every SearchMultiSelectDropdown
SearchHandleSelectSharedStore(i, option) ==
    /\ calls' = <<Call(i, "onSelect", 0, "option", option)>>
    /\ isOpen' = [j \in Inst |-> IF j \in SearchInst THEN FALSE ELSE isOpen[j]]
    /\ searchTerm' = [j \in Inst |-> <<>>]

SearchHandleSelect(i, option) ==
    /\ calls' = <<Call(i, "onSelect", 0, "option", option)>>
    /\ isOpen' = [isOpen EXCEPT ![i] = FALSE]
    /\ searchTerm' = [searchTerm EXCEPT ![i] = <<>>]

\* onClick of the k-th rendered option row
SearchSelect(i, k) ==
    /\ i \in SearchInst /\ mounted[i] /\ isOpen[i]
    /\ k \in 1..Len(filteredOptions(options[i], searchTerm[i]))
    /\ SearchHandleSelect(i, filteredOptions(options[i], searchTerm[i])[k])
    /\ ev' = Event("select", i, <<>>, k, NoTarget)
    /\ prevOpen' = isOpen
    /\ UNCHANGED layout
    /\ UNCHANGED <<mounted, options, onCreateLabel, includeDefault, setIsOpen, listeners>>

\* The onClick of the "Create label" row passing the trimmed term
SearchCreateOnClickTrimmed(i) ==
    /\ calls' = <<Call(i, "onCreateLabel", 0, "string", trim(searchTerm[i]))>>
    /\ isOpen' = [isOpen EXCEPT ![i] = FALSE]
    /\ searchTerm' = [searchTerm EXCEPT ![i] = <<>>]

SearchCreateOnClick(i) ==
    /\ calls' = <<Call(i, "onCreateLabel", 0, "string", searchTerm[i])>>
    /\ isOpen' = [isOpen EXCEPT ![i] = FALSE]
    /\ searchTerm' = [searchTerm EXCEPT ![i] = <<>>]

\* onClick of the "Create label" row
SearchCreate(i) ==
    /\ i \in SearchInst /\ mounted[i] /\ isOpen[i]
    /\ createRowOffered(options[i], searchTerm[i], onCreateLabel[i])
    /\ SearchCreateOnClick(i)
    /\ ev' = Event("create", i, <<>>, 0, NoTarget)
    /\ prevOpen' = isOpen
    /\ UNCHANGED layout
    /\ UNCHANGED <<mounted, options, onCreateLabel, includeDefault, setIsOpen, listeners>>

\* handleClickOutside testing dropdownMenuRef alone
SearchClickIsOutsideMenuOnly(i, t) ==
    /\ mounted[i] /\ isOpen[i]
    /\ ~(t.inst = i /\ t.region = "menu")

\* handleClickOutside testing dropdownRef alone
SearchClickIsOutsideAnchorOnly(i, t) ==
    /\ mounted[i]
    /\ ~(t.inst = i /\ t.region = "anchor")

\* The condition of handleClickOutside: both refs are set and neither contains
\* the target. dropdownRef is set while mounted; dropdownMenuRef is the portal
\* menu, rendered while open.
SearchClickIsOutside(i, t) ==
    /\ mounted[i]
    /\ ~(t.inst = i /\ t.region = "anchor")
    /\ mounted[i] /\ isOpen[i]
    /\ ~(t.inst = i /\ t.region = "menu")

----------------------------------------------------------------------------
(* CustomDropdown *)

CustomEffectSetup(ls) == addEventListener(ls, MountHandler)

CustomEffectCleanup(ls) == removeEventListener(ls, MountHandler)

CustomMount(i) ==
    /\ i \in CustomInst /\ ~mounted[i] /\ NumMounted < MaxMounted
    /\ mounted' = [mounted EXCEPT ![i] = TRUE]
    /\ isOpen' = [isOpen EXCEPT ![i] = FALSE]
    /\ listeners' = [listeners EXCEPT ![i] = CustomEffectSetup(@)]
    /\ ev' = Event("mount", i, <<>>, 0, NoTarget)
    /\ calls' = <<>>
    /\ prevOpen' = isOpen
    /\ UNCHANGED layout
    /\ UNCHANGED <<searchTerm, options, onCreateLabel, includeDefault, setIsOpen>>

CustomRender(i) ==
    /\ i \in CustomInst /\ mounted[i]
    /\ ev' = Event("render", i, <<>>, 0, NoTarget)
    /\ calls' = <<>>
    /\ prevOpen' = isOpen
    /\ UNCHANGED layout
    /\ UNCHANGED <<mounted, isOpen, searchTerm, options, onCreateLabel, includeDefault,
                   setIsOpen, listeners>>

CustomUnmount(i) ==
    /\ i \in CustomInst /\ mounted[i]
    /\ mounted' = [mounted EXCEPT ![i] = FALSE]
    /\ Discard(i)
    /\ listeners' = [listeners EXCEPT ![i] = CustomEffectCleanup(@)]
    /\ ev' = Event("unmount", i, <<>>, 0, NoTarget)
    /\ calls' = <<>>
    /\ prevOpen' = isOpen
    /\ UNCHANGED layout

\* onClick of the div around the children
CustomToggleClick(i) ==
    /\ i \in CustomInst /\ mounted[i]
    /\ isOpen' = [isOpen EXCEPT ![i] = ~isOpen[i]]
    /\ ev' = Event("toggle", i, <<>>, 0, ClickOrigin(i, "toggle"))
    /\ calls' = <<>>
    /\ prevOpen' = isOpen
    /\ UNCHANGED layout
    /\ UNCHANGED <<mounted, searchTerm, options, onCreateLabel, includeDefault,
                   setIsOpen, listeners>>

\* onClick of the panel, rendered while open
CustomPanelClick(i) ==
    /\ i \in CustomInst /\ mounted[i] /\ isOpen[i]
    /\ isOpen' = [isOpen EXCEPT ![i] = ~isOpen[i]]
    /\ ev' = Event("panel", i, <<>>, 0, ClickOrigin(i, "panel"))
    /\ calls' = <<>>
    /\ prevOpen' = isOpen
    /\ UNCHANGED layout
    /\ UNCHANGED <<mounted, searchTerm, options, onCreateLabel, includeDefault,
                   setIsOpen, listeners>>

CustomClickIsOutside(i, t) ==
    /\ mounted[i]
    /\ ~(t.inst = i)

----------------------------------------------------------------------------
(* DefaultDropdown *)

DefaultLabel == <<"D", "e", "f", "a", "u", "l", "t">>

\* DefaultRows rendering the sentinel row whatever includeDefault is
DefaultRowsAlwaysSentinel(opts, incl) ==
    <<[sentinel |-> TRUE, name |-> DefaultLabel, tag |-> "null", v |-> 0]>>
    \o [k \in 1..Len(opts) |->
         [sentinel |-> FALSE, name |-> opts[k].name, tag |-> "value", v |-> opts[k].value]]

\* The rows of the Dropdown element, each with the argument its onSelect
\* passes to handleSelect: the sentinel row first when includeDefault is set.
DefaultRows(opts, incl) ==
    (IF incl
       THEN <<[sentinel |-> TRUE, name |-> DefaultLabel, tag |-> "null", v |-> 0]>>
       ELSE <<>>)
    \o [k \in 1..Len(opts) |->
         [sentinel |-> FALSE, name |-> opts[k].name, tag |-> "value", v |-> opts[k].value]]

DefaultMount(i, opts, incl) ==
    /\ i \in DefaultInst /\ ~mounted[i] /\ NumMounted < MaxMounted
    /\ mounted' = [mounted EXCEPT ![i] = TRUE]
    /\ isOpen' = [isOpen EXCEPT ![i] = FALSE]
    /\ options' = [options EXCEPT ![i] = opts]
    /\ includeDefault' = [includeDefault EXCEPT ![i] = incl]
    /\ ev' = Event("mount", i, <<>>, 0, NoTarget)
    /\ calls' = <<>>
    /\ prevOpen' = isOpen
    /\ UNCHANGED layout
    /\ UNCHANGED <<searchTerm, onCreateLabel, setIsOpen, listeners>>

DefaultRender(i, opts, incl) ==
    /\ i \in DefaultInst /\ mounted[i]
    /\ options' = [options EXCEPT ![i] = opts]
    /\ includeDefault' = [includeDefault EXCEPT ![i] = incl]
    /\ ev' = Event("render", i, <<>>, 0, NoTarget)
    /\ calls' = <<>>
    /\ prevOpen' = isOpen
    /\ UNCHANGED layout
    /\ UNCHANGED <<mounted, isOpen, searchTerm, onCreateLabel, setIsOpen, listeners>>

DefaultUnmount(i) ==
    /\ i \in DefaultInst /\ mounted[i]
    /\ mounted' = [mounted EXCEPT ![i] = FALSE]
    /\ Discard(i)
    /\ ev' = Event("unmount", i, <<>>, 0, NoTarget)
    /\ calls' = <<>>
    /\ prevOpen' = isOpen
    /\ UNCHANGED layout
    /\ UNCHANGED listeners

\* The wrapper's onClick written as setIsOpen(true)
DefaultWrapperOnClickOpens(renderIsOpen) == TRUE

\* onClick of the wrapper div, reached by a click on the trigger: the handler
\* closes over the isOpen of the render it belongs to
DefaultWrapperOnClick(renderIsOpen) == ~renderIsOpen

DefaultTriggerClick(i) ==
    /\ i \in DefaultInst /\ mounted[i]
    /\ isOpen' = [isOpen EXCEPT ![i] = DefaultWrapperOnClick(isOpen[i])]
    /\ ev' = Event("toggle", i, <<>>, 0, NoTarget)
    /\ calls' = <<>>
    /\ prevOpen' = isOpen
    /\ UNCHANGED layout
    /\ UNCHANGED <<mounted, searchTerm, options, onCreateLabel, includeDefault,
                   setIsOpen, listeners>>

\* handleSelect: the calls it makes and the state updates it queues
DefaultHandleSelect(i, row) ==
    [calls |-> <<Call(i, "onSelect", 0, row.tag, row.v)>>, updates |-> <<FALSE>>]

\* The state updates queued while one event is handled are applied in order
ApplyUpdates(cur, updates) ==
    IF updates = <<>> THEN cur ELSE updates[Len(updates)]

\* onClick of the k-th row: handleSelect runs, then the click bubbles to the
\* wrapper div, whose onClick queues setIsOpen(!isOpen)
DefaultSelect(i, k) ==
    /\ i \in DefaultInst /\ mounted[i] /\ isOpen[i]
    /\ k \in 1..Len(DefaultRows(options[i], includeDefault[i]))
    /\ LET h == DefaultHandleSelect(i, DefaultRows(options[i], includeDefault[i])[k])
       IN /\ calls' = h.calls
          /\ isOpen' = [isOpen EXCEPT ![i] =
                 ApplyUpdates(isOpen[i],
                     h.updates \o <<DefaultWrapperOnClick(isOpen[i])>>)]
    /\ ev' = Event("select", i, <<>>, k, NoTarget)
    /\ prevOpen' = isOpen
    /\ UNCHANGED layout
    /\ UNCHANGED <<mounted, searchTerm, options, onCreateLabel, includeDefault,
                   setIsOpen, listeners>>

\* The Popover closes itself through onOpenChange(false) on a pointer-down
\* outside its trigger and its content
PopoverDismisses(i, t) ==
    /\ mounted[i] /\ isOpen[i]
    /\ ~(t.inst = i)

\* onOpenChange={(open) => setIsOpen(open)}
DefaultOnOpenChange(open) == open

----------------------------------------------------------------------------
(* ControlledPopup *)

\* useCallback(..., [filtersRef, setIsOpen]): a new handleClickOutside exactly
\* when setIsOpen is a new function; the handler is identified by the
\* setIsOpen it closes over
PopupHandleClickOutside(setter) == setter

PopupEffectSetup(ls, h) == addEventListener(ls, h)

\* The effect of ControlledPopup returning no cleanup
PopupEffectCleanupMissing(ls, h) == ls

PopupEffectCleanup(ls, h) == removeEventListener(ls, h)

PopupMount(i, open, setter) ==
    /\ i \in PopupInst /\ ~mounted[i] /\ NumMounted < MaxMounted
    /\ mounted' = [mounted EXCEPT ![i] = TRUE]
    /\ isOpen' = [isOpen EXCEPT ![i] = open]
    /\ setIsOpen' = [setIsOpen EXCEPT ![i] = setter]
    /\ listeners' = [listeners EXCEPT ![i] =
           PopupEffectSetup(@, PopupHandleClickOutside(setter))]
    /\ ev' = Event("mount", i, <<>>, 0, NoTarget)
    /\ calls' = <<>>
    /\ prevOpen' = isOpen
    /\ UNCHANGED layout
    /\ UNCHANGED <<searchTerm, options, onCreateLabel, includeDefault>>

\* The effect depends on [handleClickOutside]: when it is a new function the
\* cleanup of the last run removes the old one and the effect adds the new
PopupEffectRerun(ls, old, new) ==
    IF new # old
      THEN PopupEffectSetup(PopupEffectCleanup(ls, old), new)
      ELSE ls

\* A re-render by the caller, which owns isOpen and passes setIsOpen
PopupRender(i, open, setter) ==
    /\ i \in PopupInst /\ mounted[i]
    /\ isOpen' = [isOpen EXCEPT ![i] = open]
    /\ setIsOpen' = [setIsOpen EXCEPT ![i] = setter]
    /\ listeners' = [listeners EXCEPT ![i] =
           PopupEffectRerun(@, PopupHandleClickOutside(setIsOpen[i]),
                               PopupHandleClickOutside(setter))]
    /\ ev' = Event("render", i, <<>>, 0, NoTarget)
    /\ calls' = <<>>
    /\ prevOpen' = isOpen
    /\ UNCHANGED layout
    /\ UNCHANGED <<mounted, searchTerm, options, onCreateLabel, includeDefault>>

PopupUnmount(i) ==
    /\ i \in PopupInst /\ mounted[i]
    /\ mounted' = [mounted EXCEPT ![i] = FALSE]
    /\ listeners' = [listeners EXCEPT ![i] =
           PopupEffectCleanup(@, PopupHandleClickOutside(setIsOpen[i]))]
    /\ Discard(i)
    /\ ev' = Event("unmount", i, <<>>, 0, NoTarget)
    /\ calls' = <<>>
    /\ prevOpen' = isOpen
    /\ UNCHANGED layout

\* The condition of handleClickOutside: filtersRef is set and does not
\* contain the target
PopupClickIsOutside(i, t) ==
    /\ mounted[i]
    /\ ~(t.inst = i)

----------------------------------------------------------------------------
(* A mousedown on the document: every registered listener runs *)

\* The calls of setIsOpen(false) made by the listeners of ControlledPopup i
PopupCalls(i, t) ==
    IF i \in PopupInst /\ PopupClickIsOutside(i, t)
      THEN [k \in 1..Len(listeners[i]) |->
              Call(i, "setIsOpen", listeners[i][k], "bool", FALSE)]
      ELSE <<>>

RECURSIVE AllPopupCalls(_, _)
AllPopupCalls(is, t) ==
    IF is = <<>> THEN <<>>
    ELSE PopupCalls(Head(is), t) \o AllPopupCalls(Tail(is), t)

\* Whether the mousedown leaves instance i closed. The caller of
\* ControlledPopup is taken to pass its state setter as setIsOpen.
ClosedByMouseDown(i, t) ==
    \/ i \in SearchInst /\ listeners[i] # <<>> /\ SearchClickIsOutside(i, t)
    \/ i \in CustomInst /\ listeners[i] # <<>> /\ CustomClickIsOutside(i, t)
    \/ i \in DefaultInst /\ PopoverDismisses(i, t) /\ ~DefaultOnOpenChange(FALSE)
    \/ i \in PopupInst /\ PopupCalls(i, t) # <<>>

MouseDown(t) ==
    /\ t \in Targets
    /\ isOpen' = [i \in Inst |-> IF ClosedByMouseDown(i, t) THEN FALSE ELSE isOpen[i]]
    /\ calls' = AllPopupCalls(InstSeq, t)
    /\ ev' = Event("mousedown", t.inst, <<>>, 0, t)
    /\ prevOpen' = isOpen
    /\ UNCHANGED layout
    /\ UNCHANGED <<mounted, searchTerm, options, onCreateLabel, includeDefault,
                   setIsOpen, listeners>>

----------------------------------------------------------------------------
(* RootLayout *)

widgetVars == <<mounted, isOpen, searchTerm, options, onCreateLabel, includeDefault,
                setIsOpen, listeners, ev, calls, prevOpen>>

\* The members of GatingType that RootLayout names, and the value standing
\* for a settings object without product_gating
GatingNone == "none"
GatingFull == "full"
GatingValues == {"missing", GatingNone, "partial", GatingFull}

Fetchers == {"fetchSettingsSS", "fetchAssistantData", "getCurrentUserSS"}

Pending == [state |-> "pending", product_gating |-> "missing", assistants |-> <<>>,
            hasAnyConnectors |-> FALSE, hasImageCompatibleModel |-> FALSE,
            user |-> "null"]

\* What fetchSettingsSS resolves to: null, or the combined settings
SettingsResults ==
    {[Pending EXCEPT !.state = "null"]}
    \cup {[Pending EXCEPT !.state = "loaded", !.product_gating = g] : g \in GatingValues}

\* What fetchAssistantData resolves to
AssistantResults ==
    {[Pending EXCEPT !.state = "loaded", !.assistants = a,
                     !.hasAnyConnectors = c, !.hasImageCompatibleModel = m] :
        a \in {<<>>, <<"assistant">>}, c \in BOOLEAN, m \in BOOLEAN}

\* What getCurrentUserSS resolves to: null when nobody is logged in
UserResults ==
    {[Pending EXCEPT !.state = "loaded", !.user = u] : u \in {"null", "basic", "admin"}}

ResultsOf(f) ==
    CASE f = "fetchSettingsSS"    -> SettingsResults
      [] f = "fetchAssistantData" -> AssistantResults
      [] f = "getCurrentUserSS"   -> UserResults

\* combinedSettings?.settings.product_gating with GatingNone taken when the
\* value is missing, read as full
productGatingMissingIsFull(combinedSettings) ==
    IF combinedSettings.state = "loaded" /\ combinedSettings.product_gating # "missing"
      THEN combinedSettings.product_gating
      ELSE GatingFull

\* combinedSettings?.settings.product_gating ?? GatingType.NONE
productGating(combinedSettings) ==
    IF combinedSettings.state = "loaded" /\ combinedSettings.product_gating # "missing"
      THEN combinedSettings.product_gating
      ELSE GatingNone

\* getPageContent: the html document around the content
getPageContent(content) == {"html", "PHProvider"} \cup content

\* The elements RootLayout returns, by its three return statements in order
RootLayout(combinedSettings, assistantsData, user) ==
    IF combinedSettings.state = "null"
      THEN getPageContent({"LogoType", "ConfigErrorNotice"})
    ELSE IF productGating(combinedSettings) = GatingFull
      THEN getPageContent({"LogoType", "AccessRestrictedNotice"})
    ELSE getPageContent({"AppProvider", "PostHogPageView", "children"})

NoPage == {}

\* A request arrives: nothing fetched, nothing rendered
LayoutRequest ==
    [pc |-> "request",
     results |-> [f \in Fetchers |-> Pending],
     fetched |-> [f \in Fetchers |-> 0],
     page |-> NoPage]

\* Promise.all([...]): each fetcher is called once, before any result is awaited
LayoutFetch ==
    /\ layout.pc = "request"
    /\ layout' = [layout EXCEPT !.pc = "awaiting",
                                !.fetched = [f \in Fetchers |-> @[f] + 1]]
    /\ UNCHANGED widgetVars

\* One of the three promises resolves
LayoutResolve(f, v) ==
    /\ layout.pc = "awaiting"
    /\ layout.results[f].state = "pending"
    /\ v \in ResultsOf(f)
    /\ layout' = [layout EXCEPT !.results[f] = v]
    /\ UNCHANGED widgetVars

\* The await returns once all three have resolved, and the body runs to a return
LayoutRender ==
    /\ layout.pc = "awaiting"
    /\ \A f \in Fetchers : layout.results[f].state # "pending"
    /\ layout' = [layout EXCEPT
           !.pc = "rendered",
           !.page = RootLayout(layout.results["fetchSettingsSS"],
                               layout.results["fetchAssistantData"],
                               layout.results["getCurrentUserSS"])]
    /\ UNCHANGED widgetVars

\* The request behind a page that shows widgets: settings loaded, no gating
LayoutServed ==
    LET rs == [f \in Fetchers |->
                 CASE f = "fetchSettingsSS" ->
                        [Pending EXCEPT !.state = "loaded", !.product_gating = GatingNone]
                   [] f = "fetchAssistantData" ->
                        [Pending EXCEPT !.state = "loaded", !.hasAnyConnectors = TRUE]
                   [] f = "getCurrentUserSS" ->
                        [Pending EXCEPT !.state = "loaded", !.user = "basic"]]
    IN [pc |-> "rendered",
        results |-> rs,
        fetched |-> [f \in Fetchers |-> 1],
        page |-> RootLayout(rs["fetchSettingsSS"], rs["fetchAssistantData"],
                            rs["getCurrentUserSS"])]

----------------------------------------------------------------------------
(* Specifications *)

Unmounted ==
    /\ mounted = [i \in Inst |-> FALSE]
    /\ isOpen = [i \in Inst |-> FALSE]
    /\ searchTerm = [i \in Inst |-> <<>>]
    /\ options = [i \in Inst |-> <<>>]
    /\ onCreateLabel = [i \in Inst |-> FALSE]
    /\ includeDefault = [i \in Inst |-> FALSE]
    /\ setIsOpen = [i \in Inst |-> 0]
    /\ listeners = [i \in Inst |-> <<>>]
    /\ calls = <<>>
    /\ prevOpen = [i \in Inst |-> FALSE]

\* The page before any instance is mounted
Init ==
    /\ Unmounted
    /\ ev = Event("load", "document", <<>>, 0, NoTarget)
    /\ layout = LayoutServed

Next ==
    \/ \E i \in SearchInst, opts \in PageOptionLists, hasCreate \in BOOLEAN :
         SearchMount(i, opts, hasCreate)
    \/ \E i \in SearchInst, opts \in PageOptionLists, hasCreate \in BOOLEAN :
         SearchRender(i, opts, hasCreate)
    \/ \E i \in SearchInst : SearchUnmount(i)
    \/ \E i \in SearchInst : SearchFocus(i)
    \/ \E i \in SearchInst, v \in PageTerms : SearchChange(i, v)
    \/ \E i \in SearchInst : SearchToggleClick(i)
    \/ \E i \in SearchInst, k \in 1..MaxOpts : SearchSelect(i, k)
    \/ \E i \in SearchInst : SearchCreate(i)
    \/ \E i \in CustomInst : CustomMount(i)
    \/ \E i \in CustomInst : CustomRender(i)
    \/ \E i \in CustomInst : CustomUnmount(i)
    \/ \E i \in CustomInst : CustomToggleClick(i)
    \/ \E i \in CustomInst : CustomPanelClick(i)
    \/ \E i \in DefaultInst, opts \in PageOptionLists, incl \in BOOLEAN :
         DefaultMount(i, opts, incl)
    \/ \E i \in DefaultInst, opts \in PageOptionLists, incl \in BOOLEAN :
         DefaultRender(i, opts, incl)
    \/ \E i \in DefaultInst : DefaultUnmount(i)
    \/ \E i \in DefaultInst : DefaultTriggerClick(i)
    \/ \E i \in DefaultInst, k \in 1..(MaxOpts + 1) : DefaultSelect(i, k)
    \/ \E i \in PopupInst, open \in BOOLEAN, setter \in SetterIds :
         PopupMount(i, open, setter)
    \/ \E i \in PopupInst, open \in BOOLEAN, setter \in SetterIds :
         PopupRender(i, open, setter)
    \/ \E i \in PopupInst : PopupUnmount(i)
    \/ \E t \in Targets : MouseDown(t)

Spec == Init /\ [][Next]_vars

\* One SearchMultiSelectDropdown, mounted with any options list and either
\* with or without onCreateLabel; the user types any term.
InitSearch ==
    \E opts \in OptionLists, hasCreate \in BOOLEAN :
      /\ mounted = [i \in Inst |-> i = "s1"]
      /\ isOpen = [i \in Inst |-> FALSE]
      /\ searchTerm = [i \in Inst |-> <<>>]
      /\ options = [i \in Inst |-> IF i = "s1" THEN opts ELSE <<>>]
      /\ onCreateLabel = [i \in Inst |-> i = "s1" /\ hasCreate]
      /\ includeDefault = [i \in Inst |-> FALSE]
      /\ setIsOpen = [i \in Inst |-> 0]
      /\ listeners = [i \in Inst |-> IF i = "s1" THEN SearchEffectSetup(<<>>) ELSE <<>>]
      /\ calls = <<>>
      /\ prevOpen = [i \in Inst |-> FALSE]
      /\ ev = Event("mount", "s1", <<>>, 0, NoTarget)
      /\ layout = LayoutServed

NextSearch ==
    \/ SearchFocus("s1")
    \/ \E v \in Terms : SearchChange("s1", v)
    \/ SearchToggleClick("s1")
    \/ \E k \in 1..MaxOpts : SearchSelect("s1", k)
    \/ SearchCreate("s1")
    \/ \E t \in Targets : MouseDown(t)

SpecSearch == InitSearch /\ [][NextSearch]_vars

\* One request served by RootLayout, before any widget is mounted
InitLayout ==
    /\ Unmounted
    /\ ev = Event("load", "document", <<>>, 0, NoTarget)
    /\ layout = LayoutRequest

NextLayout ==
    \/ LayoutFetch
    \/ \E f \in Fetchers, v \in SettingsResults \cup AssistantResults \cup UserResults :
         LayoutResolve(f, v)
    \/ LayoutRender

SpecLayout == InitLayout /\ [][NextLayout]_vars

----------------------------------------------------------------------------
(* What the properties below are stated with *)

\* name contains s, case ignored, stated position by position
ContainsCI(name, s) ==
    \E at \in 1..(Len(name) + 1) :
      \A k \in 1..Len(s) :
        /\ at + k - 1 <= Len(name)
        /\ LowerChar(name[at + k - 1]) = LowerChar(s[k])

\* a and b are equal, case ignored
EqualsCI(a, b) ==
    /\ Len(a) = Len(b)
    /\ \A k \in 1..Len(a) : LowerChar(a[k]) = LowerChar(b[k])

\* The subsequence of L whose names contain s, in L's order
RECURSIVE KeepMatching(_, _)
KeepMatching(L, s) ==
    IF L = <<>> THEN <<>>
    ELSE (IF ContainsCI(Head(L).name, s) THEN <<Head(L)>> ELSE <<>>)
         \o KeepMatching(Tail(L), s)

HasNonSpace(s) == \E k \in 1..Len(s) : s[k] # " "

NoOptionNamed(opts, s) == ~ \E k \in 1..Len(opts) : EqualsCI(opts[k].name, s)

\* The widgets that own their open state, and those with a mousedown listener
OwnsOpenState == SearchInst \cup CustomInst \cup DefaultInst
HasListener == SearchInst \cup CustomInst \cup PopupInst

----------------------------------------------------------------------------
(* C1 *)

\* C1: the option rows of SearchMultiSelectDropdown are exactly the
\* subsequence of the options whose name contains the search term, case
\* ignored, in the order of the options, nothing sorted and nothing dropped;
\* with the empty term they are the options unchanged.
C1_FilterIsSubsequence ==
    \A i \in SearchInst :
      mounted[i] =>
        /\ filteredOptions(options[i], searchTerm[i])
             = KeepMatching(options[i], searchTerm[i])
        /\ searchTerm[i] = <<>> =>
             filteredOptions(options[i], searchTerm[i]) = options[i]

\* An open menu whose term "A" matches "Ab" and "a": both rows, in list order
C1_Witness ==
    /\ isOpen["s1"]
    /\ searchTerm["s1"] = <<"A">>
    /\ options["s1"] = <<Option(<<"A", "b">>, 2), Option(<<"a">>, 1)>>
    /\ filteredOptions(options["s1"], searchTerm["s1"]) = options["s1"]

----------------------------------------------------------------------------
(* C2 *)

\* The option behind the k-th row of DefaultDropdown i, sentinel excluded
DefaultRowOption(i, k) == options[i][k - (IF includeDefault[i] THEN 1 ELSE 0)]

IsSentinelClick(i, k) == includeDefault[i] /\ k = 1

\* C2 as stated: a click on an option row calls onSelect once with the
\* option's value in both widgets, and leaves the widget closed (and the
\* search term empty).
C2_Original ==
    [][\A i \in SearchInst \cup DefaultInst :
         (ev'.type = "select" /\ ev'.inst = i
            /\ (i \in DefaultInst => ~IsSentinelClick(i, ev'.index)))
         =>
         /\ Len(calls') = 1
         /\ calls'[1].fn = "onSelect"
         /\ calls'[1].tag = "value"
         /\ calls'[1].v =
              (IF i \in SearchInst
                 THEN filteredOptions(options[i], searchTerm[i])[ev'.index].value
                 ELSE DefaultRowOption(i, ev'.index).value)
         /\ ~isOpen'[i]
         /\ (i \in SearchInst => searchTerm'[i] = <<>>)]_vars

\* C2, amended: a click on an option row of an open widget calls onSelect
\* exactly once, in DefaultDropdown with the option's value and in
\* SearchMultiSelectDropdown with the option itself (name and value); after
\* the click's handlers have run, the wrapper's toggle included, the widget is
\* closed, and in the search variant the search term is empty.
C2_SelectCallsOnceAndCloses ==
    [][\A i \in SearchInst \cup DefaultInst :
         (ev'.type = "select" /\ ev'.inst = i
            /\ (i \in DefaultInst => ~IsSentinelClick(i, ev'.index)))
         =>
         /\ isOpen[i]
         /\ Len(calls') = 1
         /\ calls'[1].inst = i
         /\ calls'[1].fn = "onSelect"
         /\ (i \in SearchInst =>
               /\ calls'[1].tag = "option"
               /\ calls'[1].v = filteredOptions(options[i], searchTerm[i])[ev'.index])
         /\ (i \in DefaultInst =>
               /\ calls'[1].tag = "value"
               /\ calls'[1].v = DefaultRowOption(i, ev'.index).value)
         /\ ~isOpen'[i]
         /\ (i \in SearchInst => searchTerm'[i] = <<>>)]_vars

\* The second row of a filtered menu was clicked: onSelect got the option
C2_Witness ==
    /\ ev.type = "select" /\ ev.inst = "s1" /\ ev.index = 2
    /\ prevOpen["s1"] /\ ~isOpen["s1"]
    /\ searchTerm["s1"] = <<>>
    /\ Len(calls) = 1
    /\ calls[1].tag = "option"
    /\ calls[1].v = Option(<<"a">>, 1)

----------------------------------------------------------------------------
(* C3 *)

\* C3: while a widget with outside-click detection is open, a mousedown on a
\* target outside all its regions closes it (ControlledPopup: calls the
\* current setIsOpen with false, once), and a mousedown inside one of its
\* regions, the floating panel included, leaves its open state as it was.
C3_OutsideClosesInsideKeeps ==
    [][\A i \in HasListener :
         (ev'.type = "mousedown" /\ mounted[i] /\ isOpen[i])
         =>
         /\ ev'.target.inst # i =>
              /\ ~isOpen'[i]
              /\ (i \in PopupInst =>
                    SelectSeq(calls', LAMBDA c : c.inst = i)
                      = <<Call(i, "setIsOpen", setIsOpen[i], "bool", FALSE)>>)
         /\ ev'.target.inst = i =>
              /\ isOpen'[i]
              /\ SelectSeq(calls', LAMBDA c : c.inst = i) = <<>>]_vars

\* A mousedown inside the open menu of s1: s1 stays open and the open c1,
\* for which the target is outside, is closed
C3_Witness ==
    /\ ev.type = "mousedown"
    /\ ev.target = [inst |-> "s1", region |-> "menu"]
    /\ prevOpen["s1"] /\ isOpen["s1"]
    /\ prevOpen["c1"] /\ ~isOpen["c1"] /\ mounted["c1"]

----------------------------------------------------------------------------
(* C4 *)

\* C4: activating the create-new row while the search term is t calls
\* onCreateLabel exactly once, with t as typed, and leaves the search term
\* empty and the widget closed; and the row is activated only where no
\* option of the list is named t, case ignored.
C4_CreateCallsWithRawTerm ==
    [][\A i \in SearchInst :
         (ev'.type = "create" /\ ev'.inst = i)
         =>
         /\ calls' = <<Call(i, "onCreateLabel", 0, "string", searchTerm[i])>>
         /\ searchTerm'[i] = <<>>
         /\ ~isOpen'[i]
         /\ NoOptionNamed(options[i], searchTerm[i])]_vars

\* "a " was typed over the option "a" and the create-new row activated: the
\* callback got the term with its trailing blank
C4_Witness ==
    /\ ev.type = "create" /\ ev.inst = "s1"
    /\ prevOpen["s1"] /\ ~isOpen["s1"]
    /\ searchTerm["s1"] = <<>>
    /\ options["s1"] = <<Option(<<"a">>, 1)>>
    /\ calls = <<Call("s1", "onCreateLabel", 0, "string", <<"a", " ">>)>>

----------------------------------------------------------------------------
(* C5 *)

\* C5 as stated: in an open SearchMultiSelectDropdown with onCreateLabel,
\* the create-new row is offered whenever the search term is non-empty and
\* names no option, case ignored; terms of whitespace only included.
C5_Original ==
    \A i \in SearchInst :
      (mounted[i] /\ isOpen[i] /\ onCreateLabel[i]
         /\ searchTerm[i] # <<>>
         /\ NoOptionNamed(options[i], searchTerm[i]))
      => createRowOffered(options[i], searchTerm[i], onCreateLabel[i])

\* C5, amended: in an open SearchMultiSelectDropdown with onCreateLabel, the
\* create-new row is offered whenever the search term has a character that
\* is not whitespace and names no option, case ignored; a term that differs
\* from an option's name by surrounding whitespace only is such a term, a
\* term of whitespace only is not.
C5_CreateOfferedForNonBlankTerm ==
    \A i \in SearchInst :
      (mounted[i] /\ isOpen[i] /\ onCreateLabel[i]
         /\ HasNonSpace(searchTerm[i])
         /\ NoOptionNamed(options[i], searchTerm[i]))
      => createRowOffered(options[i], searchTerm[i], onCreateLabel[i])

\* " a" typed over the option "a": the row is offered
C5_Witness ==
    /\ mounted["s1"] /\ isOpen["s1"] /\ onCreateLabel["s1"]
    /\ searchTerm["s1"] = <<" ", "a">>
    /\ options["s1"] = <<Option(<<"a">>, 1)>>
    /\ createRowOffered(options["s1"], searchTerm["s1"], onCreateLabel["s1"])

----------------------------------------------------------------------------
(* C6 *)

\* C6: in every open state of SearchMultiSelectDropdown "No matches found"
\* is shown exactly when no option row is rendered and the create-new row
\* is not offered; the menu never shows both and is never empty.
C6_NoMatchesIffNothingElse ==
    \A i \in SearchInst :
      (mounted[i] /\ isOpen[i]) =>
        LET rows == filteredOptions(options[i], searchTerm[i])
            create == createRowOffered(options[i], searchTerm[i], onCreateLabel[i])
            none == noMatchesShown(options[i], searchTerm[i], onCreateLabel[i])
        IN /\ none <=> (Len(rows) = 0 /\ ~create)
           /\ ~(none /\ create)
           /\ Len(rows) > 0 \/ create \/ none

\* A blank term over the option "a", onCreateLabel supplied: no row matches,
\* the create-new row is withheld, and the indicator is shown
C6_Witness ==
    /\ mounted["s1"] /\ isOpen["s1"] /\ onCreateLabel["s1"]
    /\ searchTerm["s1"] = <<" ">>
    /\ options["s1"] = <<Option(<<"a">>, 1)>>
    /\ noMatchesShown(options["s1"], searchTerm["s1"], onCreateLabel["s1"])

----------------------------------------------------------------------------
(* C7 *)

\* C7: DefaultDropdown renders the sentinel row exactly when includeDefault
\* is set, as the first row; selecting it calls onSelect once with null
\* and closes the widget; selecting any other row calls onSelect with that
\* option's value, never with null.
C7_SentinelSelectsNull ==
    /\ \A i \in DefaultInst :
         mounted[i] =>
           LET rows == DefaultRows(options[i], includeDefault[i])
           IN /\ (\E k \in 1..Len(rows) : rows[k].sentinel) <=> includeDefault[i]
              /\ \A k \in 1..Len(rows) : rows[k].sentinel => k = 1
              /\ Len(rows) = Len(options[i]) + (IF includeDefault[i] THEN 1 ELSE 0)
    /\ \A i \in DefaultInst :
         (ev.type = "select" /\ ev.inst = i) =>
           /\ Len(calls) = 1
           /\ calls[1].fn = "onSelect"
           /\ ~isOpen[i]
           /\ IsSentinelClick(i, ev.index) => calls[1].tag = "null"
           /\ ~IsSentinelClick(i, ev.index) =>
                /\ calls[1].tag = "value"
                /\ calls[1].v = DefaultRowOption(i, ev.index).value

\* The sentinel row of an open DefaultDropdown was clicked
C7_Witness ==
    /\ ev.type = "select" /\ ev.inst = "d1" /\ ev.index = 1
    /\ includeDefault["d1"] /\ options["d1"] # <<>>
    /\ prevOpen["d1"] /\ ~isOpen["d1"]
    /\ calls = <<Call("d1", "onSelect", 0, "null", 0)>>

----------------------------------------------------------------------------
(* C8 *)

\* C8: a widget that owns its open state is closed when mounted, and a step
\* from closed to open is a focus of its search input, a change of the input
\* to a non-empty value or a click on its toggle; never a selection, a
\* create-new activation or a mousedown elsewhere.
C8_OpensOnlyByFocusTypingOrToggle ==
    [][\A i \in OwnsOpenState :
         /\ (ev'.type = "mount" /\ ev'.inst = i) => ~isOpen'[i]
         /\ (~isOpen[i] /\ isOpen'[i]) =>
              /\ ev'.inst = i
              /\ \/ ev'.type = "focus"
                 \/ ev'.type = "toggle"
                 \/ ev'.type = "change" /\ ev'.term # <<>>]_vars

\* Typing into the closed input of s1 opened it
C8_Witness ==
    /\ ev.type = "change" /\ ev.inst = "s1" /\ ev.term # <<>>
    /\ ~prevOpen["s1"] /\ isOpen["s1"]

----------------------------------------------------------------------------
(* C9 *)

\* C9: after a change event SearchMultiSelectDropdown is open exactly when
\* the new input value is non-empty; the search term of a mounted widget
\* becomes empty by a selection, a create-new activation or a change to the
\* empty value, each of which empties it, and by nothing else: an outside
\* mousedown and a toggle click leave it as it was.
C9_ChangeOpensIffNonEmpty ==
    [][\A i \in SearchInst :
         /\ (ev'.type = "change" /\ ev'.inst = i) =>
              /\ searchTerm'[i] = ev'.term
              /\ isOpen'[i] <=> ev'.term # <<>>
         /\ (mounted[i] /\ mounted'[i] /\ searchTerm[i] # <<>> /\ searchTerm'[i] = <<>>) =>
              /\ ev'.inst = i
              /\ ev'.type \in {"select", "create", "change"}
         /\ (ev'.type \in {"select", "create"} /\ ev'.inst = i) => searchTerm'[i] = <<>>
         /\ ev'.type \in {"mousedown", "toggle", "focus"} => searchTerm'[i] = searchTerm[i]]_vars

\* The last character was deleted in an open s1, which closed it
C9_Witness ==
    /\ ev.type = "change" /\ ev.inst = "s1" /\ ev.term = <<>>
    /\ prevOpen["s1"] /\ ~isOpen["s1"]
    /\ searchTerm["s1"] = <<>>

----------------------------------------------------------------------------
(* C10 *)

\* C10: across mounts, re-renders and unmounts, every mounted
\* SearchMultiSelectDropdown, CustomDropdown and ControlledPopup has exactly
\* one mousedown listener on the document (for ControlledPopup the one made
\* with the setIsOpen it was last rendered with), every unmounted one has
\* none, and a mousedown calls setIsOpen of mounted instances only.
C10_OneListenerWhileMounted ==
    /\ \A i \in HasListener :
         /\ Len(listeners[i]) = (IF mounted[i] THEN 1 ELSE 0)
         /\ (i \in PopupInst /\ mounted[i]) =>
              listeners[i] = <<PopupHandleClickOutside(setIsOpen[i])>>
    /\ \A k \in 1..Len(calls) :
         calls[k].fn = "setIsOpen" =>
           /\ mounted[calls[k].inst]
           /\ calls[k].id = setIsOpen[calls[k].inst]

\* p1 was unmounted beside a mounted s1: its listener is gone, s1's is there
C10_Witness ==
    /\ ev.type = "unmount" /\ ev.inst = "p1"
    /\ listeners["p1"] = <<>>
    /\ mounted["s1"] /\ listeners["s1"] = <<MountHandler>>

----------------------------------------------------------------------------
(* C11 *)

LayoutOutcomes == {"ConfigErrorNotice", "AccessRestrictedNotice", "AppProvider"}

\* C11: whatever the three fetches resolve to, RootLayout renders exactly one
\* of the configuration-error notice (settings resolved to null), the
\* access-restricted notice (settings loaded, product gating FULL) and the
\* application shell with the page children (otherwise; a missing
\* product_gating counts as no restriction); the shell and the children are
\* not rendered with either notice, and each fetcher is called exactly once.
C11_ExactlyOneOutcome ==
    /\ layout.pc # "rendered" =>
         /\ layout.page = NoPage
         /\ \A f \in Fetchers : layout.fetched[f] <= 1
    /\ layout.pc = "rendered" =>
         LET cs == layout.results["fetchSettingsSS"]
             restricted == cs.state = "loaded" /\ cs.product_gating = "full"
         IN /\ Cardinality(layout.page \cap LayoutOutcomes) = 1
            /\ "ConfigErrorNotice" \in layout.page <=> cs.state = "null"
            /\ "AccessRestrictedNotice" \in layout.page <=> restricted
            /\ "AppProvider" \in layout.page <=> (cs.state = "loaded" /\ ~restricted)
            /\ "children" \in layout.page <=> "AppProvider" \in layout.page
            /\ \A f \in Fetchers : layout.fetched[f] = 1

\* Settings loaded without a product_gating value: the shell is rendered
C11_Witness ==
    /\ layout.pc = "rendered"
    /\ layout.results["fetchSettingsSS"].state = "loaded"
    /\ layout.results["fetchSettingsSS"].product_gating = "missing"
    /\ layout.results["getCurrentUserSS"].user = "null"
    /\ {"AppProvider", "children"} \subseteq layout.page

----------------------------------------------------------------------------
(* C12 *)

\* The events an instance handles in its own handlers
OwnHandlerEvents == {"focus", "change", "toggle", "select", "create", "panel"}

\* C12: with several instances mounted, the open state and the search term
\* of an instance B change only in steps of B's own handlers, of B's own
\* lifecycle and of the document mousedown its listener hears: a focus,
\* change, toggle click, selection or create-new activation handled by
\* another instance A leaves both as they were; a mousedown inside A leaves
\* B's search term as it was, changes B's open state only by closing B, and
\* does not close A.
C12_InstancesShareNoState ==
    [][\A A \in Inst, B \in Inst :
         (A # B /\ mounted[A] /\ mounted[B])
         =>
         /\ (ev'.inst = A /\ ev'.type \in OwnHandlerEvents) =>
              /\ isOpen'[B] = isOpen[B]
              /\ searchTerm'[B] = searchTerm[B]
         /\ (ev'.type = "mousedown" /\ ev'.target.inst = A) =>
              /\ searchTerm'[B] = searchTerm[B]
              /\ isOpen'[B] # isOpen[B] => (isOpen[B] /\ ~isOpen'[B])
              /\ isOpen'[A] = isOpen[A]
         /\ (isOpen'[B] # isOpen[B] \/ searchTerm'[B] # searchTerm[B]) =>
              (ev'.inst = B \/ ev'.type = "mousedown")]_vars

\* A mousedown on the input of the open s1 while s2 was open with the term
\* "a": s2 is closed and keeps its term, s1 stays open
C12_Witness ==
    /\ ev.type = "mousedown"
    /\ ev.target = [inst |-> "s1", region |-> "anchor"]
    /\ mounted["s1"] /\ mounted["s2"]
    /\ prevOpen["s1"] /\ isOpen["s1"]
    /\ prevOpen["s2"] /\ ~isOpen["s2"]
    /\ searchTerm["s2"] = <<"a">>

----------------------------------------------------------------------------
(* C13 *)

\* C13: a mousedown on the toggle of CustomDropdown or on the chevron of
\* SearchMultiSelectDropdown, followed by the click it completes, inverts the
\* open state once: the mousedown, inside the widget's region, leaves the
\* state as it was, and the click ends in the opposite state; a click inside
\* the open panel of CustomDropdown closes it.
C13_CompleteClickInvertsOnce ==
    [][\A i \in SearchInst \cup CustomInst :
         /\ (/\ ev.type = "mousedown"
             /\ ev.target = [inst |-> i, region |-> FixedRegion(i)]
             /\ ev'.type = "toggle" /\ ev'.inst = i)
            =>
            /\ isOpen[i] = prevOpen[i]
            /\ isOpen'[i] = ~prevOpen[i]
            /\ ev'.target = ev.target
         /\ (ev'.type = "panel" /\ ev'.inst = i) =>
              /\ isOpen[i]
              /\ ~isOpen'[i]
              /\ ev.type = "mousedown" /\ ev.target = [inst |-> i, region |-> "panel"]
                   => prevOpen[i]]_vars

\* The chevron of the open s1 was pressed and clicked: s1 ended closed, with
\* its search term kept
C13_Witness ==
    /\ ev.type = "toggle" /\ ev.inst = "s1"
    /\ ev.target = [inst |-> "s1", region |-> "anchor"]
    /\ prevOpen["s1"] /\ ~isOpen["s1"]
    /\ searchTerm["s1"] = <<"a">>

====
